---- MODULE Spec2Model ----
(***************************************************************************)
(* Model of theia, the JIRA "Mana Spent" analysis tool (src/main.go).      *)
(*                                                                         *)
(* src/main.go holds two programs: the first one (lines 1-407, `main`)     *)
(* and the later one with sub-commands (lines 409-1095, `runTicketCommand` *)
(* and `runEpicCommand`).  The variable prog says which one runs.          *)
(*                                                                         *)
(* float64 values that are whole numbers (mana points, their sums) are     *)
(* modelled as integers; a quotient (an average, a median of an even       *)
(* number of values) is modelled as the reduced fraction <<n, d>>.         *)
(* A Go string that the code only compares as a whole is a TLA+ string; a  *)
(* string the code trims is a sequence of tokens, each token a whitespace  *)
(* character or a word.                                                    *)
(***************************************************************************)
EXTENDS Integers, Sequences, FiniteSets, TLC

VARIABLES
    prog,            \* which program of src/main.go runs: "main", "ticket" or "epic"
    args,            \* the flags and the environment of the run
    pc,              \* where the run is
    analysis,        \* map[string]*TicketAnalysis, the overall bucket
    monthlyAnalyses, \* []MonthlyAnalysis
    teamAnalyses,    \* []TeamAnalysis
    startAt,         \* offset of the next search
    page,            \* inside the search loop: len(issues), issues ranged over, resp.Total
    results,         \* []TicketAnalysis of the overall table
    tbl,             \* index of the next team or month table to print
    stdout,          \* what the run has printed
    fetched,         \* history: the issues processed so far, in order
    call,            \* FnSpec: the function call under test, its argument and result
    server,          \* the search collaborator: any, or one that serves a fixed result set
    epic             \* runEpicCommand: the locals of its loops, its list and its log

----------------------------------------------------------------------------
(* Bounds *)

\* longest run of whitespace put before or after a label
MaxPad == 2

\* longest slice handed to calculateMedian in FnSpec
MaxLen == 4

\* most issues the search collaborator returns in one run
MaxIssues == 3

\* most epics, and most child tickets of all epics together, that the
\* search collaborator returns in one run of the epic command
MaxEpics == 2
MaxChildren == 3

\* largest result set of a collaborator that serves a fixed result set
MaxTotal == 6

----------------------------------------------------------------------------
(* General helpers *)

Range(s) == {s[i] : i \in DOMAIN s}

RECURSIVE SumSeq(_)
SumSeq(s) == IF s = <<>> THEN 0 ELSE s[1] + SumSeq(Tail(s))

Abs(n) == IF n < 0 THEN -n ELSE n

RECURSIVE GCD(_, _)
GCD(a, b) == IF b = 0 THEN a ELSE GCD(b, a % b)

\* float64 division n / d (d > 0) of whole numbers, as a reduced fraction
Quot(n, d) ==
    LET g == GCD(Abs(n), d)
    IN  <<n \div g, d \div g>>

\* the float64 zero value and whole numbers seen as quotients
Whole(n) == <<n, 1>>

\* all sequences over S of length at most n
SeqsUpTo(S, n) == UNION {[1..k -> S] : k \in 0..n}

----------------------------------------------------------------------------
(* strings.TrimSpace *)

WhiteSpace == {" ", "\t"}

RECURSIVE TrimLeft(_)
TrimLeft(s) ==
    IF s # <<>> /\ s[1] \in WhiteSpace THEN TrimLeft(Tail(s)) ELSE s

RECURSIVE TrimRight(_)
TrimRight(s) ==
    IF s # <<>> /\ s[Len(s)] \in WhiteSpace
    THEN TrimRight(SubSeq(s, 1, Len(s) - 1))
    ELSE s

TrimSpace(s) == TrimRight(TrimLeft(s))

----------------------------------------------------------------------------
(* getManaPoints *)

LabelNone    == <<"None", " ", "(zero", " ", "time", " ", "spent)">>
LabelSmall   == <<"Small", " ", "(2", " ", "hours", " ", "or", " ", "less)">>
LabelMedium  == <<"Medium", " ", "(~half", " ", "day)">>
LabelLarge   == <<"Large", " ", "(~1", " ", "day)">>
LabelXLarge  == <<"X-Large", " ", "(~2-3", " ", "days)">>
LabelXXLarge == <<"XX-Large", " ", "(~1", " ", "week)">>

\* Values of interface{} as the JSON decoder produces them
Nil       == [kind |-> "nil"]
Str(s)    == [kind |-> "string", str |-> s]
Num(n)    == [kind |-> "number", num |-> n]
Map(f)    == [kind |-> "map", m |-> f]
List(s)   == [kind |-> "list", elems |-> s]

\* v[key].(string): the comma-ok type assertion on a map entry
HasString(f, key) == key \in DOMAIN f /\ f[key].kind = "string"

getManaPointsNoTrim(manaValue) ==
    IF manaValue.kind = "nil" THEN 0
    ELSE IF manaValue.kind \notin {"string", "map"} THEN 0
    ELSE
        LET strValue ==
                IF manaValue.kind = "string" THEN manaValue.str
                ELSE IF HasString(manaValue.m, "value")
                     THEN manaValue.m["value"].str
                     ELSE <<>>
            t == strValue
        IN  IF t = LabelNone THEN 0
            ELSE IF t = LabelSmall THEN 2
            ELSE IF t = LabelMedium THEN 4
            ELSE IF t = LabelLarge THEN 8
            ELSE IF t = LabelXLarge THEN 20
            ELSE IF t = LabelXXLarge THEN 40
            ELSE 0

getManaPoints(manaValue) ==
    IF manaValue.kind = "nil" THEN 0
    ELSE IF manaValue.kind \notin {"string", "map"} THEN 0
    ELSE
        LET strValue ==
                IF manaValue.kind = "string" THEN manaValue.str
                ELSE IF HasString(manaValue.m, "value")
                     THEN manaValue.m["value"].str
                     ELSE <<>>
            t == TrimSpace(strValue)
        IN  IF t = LabelNone THEN 0
            ELSE IF t = LabelSmall THEN 2
            ELSE IF t = LabelMedium THEN 4
            ELSE IF t = LabelLarge THEN 8
            ELSE IF t = LabelXLarge THEN 20
            ELSE IF t = LabelXXLarge THEN 40
            ELSE 0

----------------------------------------------------------------------------
(* normalizeIssueType *)

\* the first program's rule
normalizeIssueTypeMain(issueType) ==
    IF issueType \in {"Task", "Sub-task"} THEN "Story" ELSE issueType

normalizeIssueTypeNoSubtask(issueType) ==
    IF issueType \in {"Story", "Task"} THEN "Story (incl. tasks)" ELSE issueType

\* the later program's rule
normalizeIssueType(issueType) ==
    IF issueType \in {"Story", "Task", "Sub-task"}
    THEN "Story (incl. tasks)"
    ELSE issueType

\* the rule of the program that runs
normalize(p, issueType) ==
    IF p = "main" THEN normalizeIssueTypeMain(issueType)
    ELSE normalizeIssueType(issueType)

----------------------------------------------------------------------------
(* calculateMedian *)

\* sort.Float64s: ascending insertion of each element
RECURSIVE Insert(_, _)
Insert(x, s) ==
    IF s = <<>> THEN <<x>>
    ELSE IF x <= s[1] THEN <<x>> \o s
    ELSE <<s[1]>> \o Insert(x, Tail(s))

RECURSIVE sortFloat64s(_)
sortFloat64s(s) ==
    IF s = <<>> THEN <<>> ELSE Insert(s[1], sortFloat64s(Tail(s)))

\* The call seen from the caller: the value returned and the caller's slice
\* after the call.  calculateMedianInPlace sorts the caller's slice itself.
calculateMedianInPlace(values) ==
    IF Len(values) = 0 THEN [ret |-> Whole(0), values |-> values]
    ELSE
        LET sorted == sortFloat64s(values)
            mid    == Len(sorted) \div 2
        IN  IF Len(sorted) % 2 = 1
            THEN [ret |-> Whole(sorted[mid + 1]), values |-> sorted]
            ELSE [ret |-> Quot(sorted[mid] + sorted[mid + 1], 2),
                  values |-> sorted]

calculateMedianCall(values) ==
    IF Len(values) = 0 THEN [ret |-> Whole(0), values |-> values]
    ELSE
        LET sorted == sortFloat64s(values)   \* of the copy
            mid    == Len(sorted) \div 2     \* Go index mid is TLA+ index mid + 1
        IN  IF Len(sorted) % 2 = 1
            THEN [ret |-> Whole(sorted[mid + 1]), values |-> values]
            ELSE [ret |-> Quot(sorted[mid] + sorted[mid + 1], 2),
                  values |-> values]

calculateMedian(values) == calculateMedianCall(values).ret

----------------------------------------------------------------------------
(* time.Time: an instant, counted in ticks since the start of EpochYear (UTC) *)

\* ticks in one second (Go counts nanoseconds)
TicksPerSecond == 2

\* the years the model's calendar covers
Years == 2023..2026

EpochYear == CHOOSE y \in Years : \A z \in Years : y <= z

TicksPerDay == 86400 * TicksPerSecond

IsLeap(y) == (y % 4 = 0 /\ y % 100 # 0) \/ y % 400 = 0

DaysIn(y, m) ==
    IF m = 2 THEN (IF IsLeap(y) THEN 29 ELSE 28)
    ELSE IF m \in {4, 6, 9, 11} THEN 30 ELSE 31

RECURSIVE DaysBeforeYear(_)
DaysBeforeYear(y) ==
    IF y <= EpochYear THEN 0
    ELSE DaysBeforeYear(y - 1) + (IF IsLeap(y - 1) THEN 366 ELSE 365)

RECURSIVE DaysBeforeMonth(_, _)
DaysBeforeMonth(y, m) ==
    IF m <= 1 THEN 0 ELSE DaysBeforeMonth(y, m - 1) + DaysIn(y, m - 1)

\* time.Date(y, m, d, 0, 0, 0, 0, UTC).Add(sec seconds); a month beyond
\* December and a day beyond the month's last are normalised as Go does
Date(y, m, d, sec) ==
    LET yy == y + ((m - 1) \div 12)
        mm == ((m - 1) % 12) + 1
    IN  (DaysBeforeYear(yy) + DaysBeforeMonth(yy, mm) + (d - 1)) * TicksPerDay
          + sec * TicksPerSecond

Year(t) == CHOOSE y \in Years : Date(y, 1, 1, 0) <= t /\ t < Date(y + 1, 1, 1, 0)

Month(t) ==
    LET y == Year(t)
    IN  CHOOSE m \in 1..12 : Date(y, m, 1, 0) <= t /\ t < Date(y, m + 1, 1, 0)

Day(t) ==
    LET y == Year(t)
        m == Month(t)
    IN  ((t - Date(y, m, 1, 0)) \div TicksPerDay) + 1

\* t.AddDate(0, 1, 0)
AddMonth(t) ==
    LET y == Year(t)
        m == Month(t)
        d == Day(t)
    IN  Date(y, m + 1, d, 0) + (t - Date(y, m, d, 0))

\* time.Parse("2006-01-02", s) of the text YYYY-MM-DD given as <<y, m, d>>;
\* the empty text is <<>>
ParseOK(s) ==
    /\ Len(s) = 3
    /\ s[1] \in Years
    /\ s[2] \in 1..12
    /\ s[3] \in 1..DaysIn(s[1], s[2])

Parse(s) == Date(s[1], s[2], s[3], 0)

----------------------------------------------------------------------------
(* The issues the search collaborator may return *)

NilIssue     == [isNil |-> TRUE, fieldsNil |-> TRUE, Type |-> ""]
BareIssue    == [isNil |-> FALSE, fieldsNil |-> TRUE, Type |-> ""]
Linked(type) == [isNil |-> FALSE, fieldsNil |-> FALSE, Type |-> type]

Outward(x) == [OutwardIssue |-> x, InwardIssue |-> NilIssue]
Inward(x)  == [OutwardIssue |-> NilIssue, InwardIssue |-> x]

\* issue.Fields.Unknowns: the team under the key each program reads
TeamFields(name) ==
    [k \in {"team", "customfield_10800"} |->
        IF k = "team" THEN Str(name)
        ELSE Map([j \in {"id", "name"} |-> Str(name)])]

\* the team in the shape the other program expects
SwappedTeamFields(name) ==
    [k \in {"team", "customfield_10800"} |->
        IF k = "team" THEN Map([j \in {"id", "name"} |-> Str(name)])
        ELSE Str(name)]

WithMana(v, u) ==
    [k \in DOMAIN u \cup {"customfield_11267"} |->
        IF k = "customfield_11267" THEN v ELSE u[k]]

Issues ==
    { [Type |-> "Story", Labels |-> <<>>, IssueLinks |-> <<>>,
       Unknowns |-> WithMana(Str(LabelLarge), TeamFields("Alpha")),
       Resolutiondate |-> Date(2024, 1, 1, 0)],
      [Type |-> "Task", Labels |-> <<"tech-debt">>,
       IssueLinks |-> <<Outward(Linked("Bug"))>>,
       Unknowns |-> WithMana(Map([k \in {"value"} |->
                                    Str(<<" ">> \o LabelMedium \o <<" ">>)]),
                             TeamFields("Beta")),
       Resolutiondate |-> Date(2024, 2, 15, 43200)],
      [Type |-> "Bug", Labels |-> <<"regression", "ux-broken-window">>,
       IssueLinks |-> <<Outward(Linked("Product Vulnerability"))>>,
       Unknowns |-> WithMana(Str(LabelLarge), <<>>),
       Resolutiondate |-> Date(2024, 1, 31, 86399)],
      [Type |-> "Bug", Labels |-> <<>>,
       IssueLinks |-> <<Outward(BareIssue),
                        Inward(Linked("Product Vulnerability"))>>,
       Unknowns |-> WithMana(Str(LabelSmall), TeamFields("Alpha")),
       Resolutiondate |-> Date(2024, 2, 1, 0) - 1],
      [Type |-> "Sub-task", Labels |-> <<"ux-broken-window">>,
       IssueLinks |-> <<>>,
       Unknowns |-> WithMana(Str(LabelNone), SwappedTeamFields("Beta")),
       Resolutiondate |-> Date(2023, 12, 31, 86399)],
      [Type |-> "Improvement", Labels |-> <<>>,
       IssueLinks |-> <<Inward(Linked("Story")),
                        Outward(Linked("Product Vulnerability"))>>,
       Unknowns |-> WithMana(Map([k \in {"value"} |-> Str(LabelXLarge)]),
                             TeamFields("")),
       Resolutiondate |-> Date(2024, 3, 21, 43200)] }

\* Unknowns[key]: nil when the key is missing
Unknown(issue, key) ==
    IF key \in DOMAIN issue.Unknowns THEN issue.Unknowns[key] ELSE Nil

----------------------------------------------------------------------------
(* The command line *)

Programs == {"main", "ticket"}

Flags(sd, ed, pk, mo, te, bw, se, env) ==
    [startDate |-> sd, endDate |-> ed, projectKey |-> pk, monthly |-> mo,
     teams |-> te, brokenWindows |-> bw, security |-> se, env |-> env]

\* every combination of the flags over the README's date range; the first
\* program has no -broken-windows and no -security flag
FlagCombinations(p) ==
    { Flags(<<2024, 1, 1>>, <<2024, 3, 21>>, "PROJ", mo, te, bw, se, TRUE) :
        mo \in BOOLEAN, te \in BOOLEAN,
        bw \in (IF p = "main" THEN {FALSE} ELSE BOOLEAN),
        se \in (IF p = "main" THEN {FALSE} ELSE BOOLEAN) }

\* -monthly over other date ranges: across a year's end, within one month,
\* end before start, more than a year
MonthlyRanges ==
    { Flags(r[1], r[2], "PROJ", TRUE, FALSE, FALSE, FALSE, TRUE) :
        r \in { <<<<2023, 12, 15>>, <<2024, 1, 10>>>>,
                <<<<2024, 2, 10>>, <<2024, 2, 20>>>>,
                <<<<2024, 3, 1>>, <<2024, 1, 31>>>>,
                <<<<2023, 11, 30>>, <<2025, 1, 1>>>> } }

\* a flag, a date or the environment missing or malformed
BadCommandLines ==
    { Flags(<<>>, <<2024, 3, 21>>, "PROJ", TRUE, FALSE, FALSE, FALSE, TRUE),
      Flags(<<2024, 1, 1>>, <<>>, "PROJ", FALSE, FALSE, FALSE, FALSE, TRUE),
      Flags(<<2024, 1, 1>>, <<2024, 3, 21>>, "", FALSE, TRUE, FALSE, FALSE, TRUE),
      Flags(<<2024, 13, 1>>, <<2024, 3, 21>>, "PROJ", TRUE, FALSE, FALSE, FALSE, TRUE),
      Flags(<<2024, 1, 1>>, <<2024, 2, 30>>, "PROJ", TRUE, FALSE, FALSE, FALSE, TRUE),
      Flags(<<2024, 1, 1>>, <<2024, 3, 21>>, "PROJ", TRUE, FALSE, FALSE, FALSE, FALSE) }

CommandLines(p) == FlagCombinations(p) \cup MonthlyRanges \cup BadCommandLines

----------------------------------------------------------------------------
(* Classification of an issue *)

\* for _, label := range issue.Fields.Labels { if label == "ux-broken-window" }
HasBrokenWindowLabel(issue) ==
    \E i \in DOMAIN issue.Labels : issue.Labels[i] = "ux-broken-window"

IsVulnerability(x) ==
    ~x.isNil /\ ~x.fieldsNil /\ x.Type = "Product Vulnerability"

\* for _, link := range issue.Fields.IssueLinks { outward or inward match }
HasVulnerabilityLink(issue) ==
    \E i \in DOMAIN issue.IssueLinks :
        \/ IsVulnerability(issue.IssueLinks[i].OutwardIssue)
        \/ IsVulnerability(issue.IssueLinks[i].InwardIssue)

\* the link override tried before the label override
issueTypeOfLinkFirst(p, f, issue) ==
    LET normalized == normalize(p, issue.Type)
        linked ==
            IF f.security /\ HasVulnerabilityLink(issue)
            THEN "Security Vuln." ELSE normalized
    IN  IF f.brokenWindows /\ linked # "Security Vuln."
             /\ HasBrokenWindowLabel(issue)
        THEN "Broken Window" ELSE linked

\* issueType as the loop body computes it before it reads the mana field
issueTypeOf(p, f, issue) ==
    LET normalized == normalize(p, issue.Type)
        labelled ==
            IF f.brokenWindows /\ HasBrokenWindowLabel(issue)
            THEN "Broken Window" ELSE normalized
    IN  IF f.security /\ labelled # "Broken Window"
             /\ HasVulnerabilityLink(issue)
        THEN "Security Vuln." ELSE labelled

\* team, as each program decodes its team field
teamOf(p, issue) ==
    IF p = "main"
    THEN LET teamField == Unknown(issue, "team")
         IN  IF teamField.kind = "string" /\ teamField.str # ""
             THEN teamField.str ELSE "No Team"
    ELSE LET teamField == Unknown(issue, "customfield_10800")
         IN  IF /\ teamField.kind = "map"
                /\ HasString(teamField.m, "name")
                /\ teamField.m["name"].str # ""
             THEN teamField.m["name"].str ELSE "No Team"

----------------------------------------------------------------------------
(* TicketAnalysis and the maps of them *)

EmptyMap == <<>>

NewTicketAnalysis(issueType) ==
    [IssueType |-> issueType, Count |-> 0, TotalMana |-> 0,
     AverageMana |-> Whole(0), MedianMana |-> Whole(0), ManaValues |-> <<>>]

\* Count++ and TotalMana += manaSpent without the append to ManaValues
AddManaNoAppend(a, issueType, manaSpent) ==
    LET old == IF issueType \in DOMAIN a THEN a[issueType]
               ELSE NewTicketAnalysis(issueType)
    IN  [k \in DOMAIN a \cup {issueType} |->
            IF k = issueType
            THEN [old EXCEPT !.Count = @ + 1, !.TotalMana = @ + manaSpent]
            ELSE a[k]]

\* get or create a[issueType]; Count++; TotalMana += manaSpent; append
AddMana(a, issueType, manaSpent) ==
    LET old == IF issueType \in DOMAIN a THEN a[issueType]
               ELSE NewTicketAnalysis(issueType)
    IN  [k \in DOMAIN a \cup {issueType} |->
            IF k = issueType
            THEN [old EXCEPT !.Count = @ + 1,
                             !.TotalMana = @ + manaSpent,
                             !.ManaValues = Append(@, manaSpent)]
            ELSE a[k]]

\* the average taken by whole-number division
WithAveragesWholeDivision(a) ==
    [k \in DOMAIN a |->
        IF a[k].Count > 0
        THEN [a[k] EXCEPT !.AverageMana = Whole(a[k].TotalMana \div a[k].Count),
                          !.MedianMana = calculateMedian(a[k].ManaValues)]
        ELSE a[k]]

\* if a.Count > 0 { a.AverageMana = ...; a.MedianMana = ... } on every entry
\* (the entries are pointers: the map's own values change)
WithAverages(a) ==
    [k \in DOMAIN a |->
        IF a[k].Count > 0
        THEN [a[k] EXCEPT !.AverageMana = Quot(a[k].TotalMana, a[k].Count),
                          !.MedianMana = calculateMedian(a[k].ManaValues)]
        ELSE a[k]]

\* the orders in which `for _, a := range m` may visit a map's entries
Orders(S) ==
    {o \in [1..Cardinality(S) -> S] : \A i, j \in DOMAIN o : i # j => o[i] # o[j]}

lessAscending(x, y) == x.TotalMana < y.TotalMana

\* the less function of the sort.Slice calls on results
less(x, y) == x.TotalMana > y.TotalMana

\* sort.Slice is not stable: any order with no element less than an earlier one
IsSorted(r) == \A i, j \in DOMAIN r : i < j => ~less(r[j], r[i])

\* the results slices that ranging over map a and sort.Slice may leave
SortedResults(a) ==
    {r \in {[i \in DOMAIN o |-> a[o[i]]] : o \in Orders(DOMAIN a)} : IsSorted(r)}

\* byte-wise order of the team names that occur
TeamNames == <<"Alpha", "Beta", "No Team">>

NameRank(n) == CHOOSE i \in DOMAIN TeamNames : TeamNames[i] = n

\* sort.Slice(teamAnalyses, ... Team < Team): the names are distinct
SortTeams(ts) ==
    IF ts = <<>> THEN ts
    ELSE CHOOSE r \in {[i \in DOMAIN ts |-> ts[o[i]]] : o \in Orders(DOMAIN ts)} :
            \A i, j \in DOMAIN r : i < j => NameRank(r[i].Team) < NameRank(r[j].Team)

\* the search for the team's entry that looks at the last entry only
TeamIndexOfLast(ts, team) ==
    IF ts # <<>> /\ ts[Len(ts)].Team = team THEN Len(ts) ELSE 0

\* index of the team's entry in teamAnalyses, 0 when there is none yet
TeamIndex(ts, team) ==
    IF \E i \in DOMAIN ts : ts[i].Team = team
    THEN CHOOSE i \in DOMAIN ts :
            ts[i].Team = team /\ \A j \in 1..(i - 1) : ts[j].Team # team
    ELSE 0

\* find or create the team's entry, then update its analysis
AddToTeam(ts, team, issueType, manaSpent) ==
    LET i   == TeamIndex(ts, team)
        ts1 == IF i = 0 THEN Append(ts, [Team |-> team, Analysis |-> EmptyMap])
               ELSE ts
        k   == IF i = 0 THEN Len(ts1) ELSE i
    IN  [ts1 EXCEPT ![k].Analysis = AddMana(@, issueType, manaSpent)]

\* the month ends one tick before the next month starts
InMonthToLastTick(maStart, resolutionDate) ==
    LET maEnd == AddMonth(maStart) - 1
    IN  resolutionDate >= maStart /\ resolutionDate <= maEnd

\* maStart <= resolutionDate <= maStart.AddDate(0, 1, 0).Add(-time.Second)
InMonth(maStart, resolutionDate) ==
    LET maEnd == AddMonth(maStart) - TicksPerSecond
    IN  resolutionDate >= maStart /\ resolutionDate <= maEnd

\* index of the first month whose range holds the date, 0 when none does
MonthIndex(ms, resolutionDate) ==
    IF \E i \in DOMAIN ms : InMonth(ms[i].Month, resolutionDate)
    THEN CHOOSE i \in DOMAIN ms :
            /\ InMonth(ms[i].Month, resolutionDate)
            /\ \A j \in 1..(i - 1) : ~InMonth(ms[j].Month, resolutionDate)
    ELSE 0

AddToMonth(ms, resolutionDate, issueType, manaSpent) ==
    LET i == MonthIndex(ms, resolutionDate)
    IN  IF i = 0 THEN ms
        ELSE [ms EXCEPT ![i].Analysis = AddMana(@, issueType, manaSpent)]

\* the loop that ends one month early
RECURSIVE MonthsBefore(_, _)
MonthsBefore(current, endMonth) ==
    IF current >= endMonth THEN <<>>
    ELSE <<[Month |-> current, Analysis |-> EmptyMap]>>
            \o MonthsBefore(AddMonth(current), endMonth)

\* for !current.After(endMonth) { append; current = current.AddDate(0, 1, 0) }
RECURSIVE MonthsUpTo(_, _)
MonthsUpTo(current, endMonth) ==
    IF current > endMonth THEN <<>>
    ELSE <<[Month |-> current, Analysis |-> EmptyMap]>>
            \o MonthsUpTo(AddMonth(current), endMonth)

\* the monthlyAnalyses allocated for the range start..end
AllocateMonths(start, end) ==
    MonthsUpTo(Date(Year(start), Month(start), 1, 0),
               Date(Year(end), Month(end), 1, 0))

----------------------------------------------------------------------------
(* printAnalysisTable *)

\* n / d rounded to the nearest whole number, a tie to the even one
RoundHalfEven(n, d) ==
    LET q == n \div d
        r == n % d
    IN  IF 2 * r < d THEN q
        ELSE IF 2 * r > d THEN q + 1
        ELSE IF q % 2 = 0 THEN q ELSE q + 1

\* %.2f and %.1f of a quotient: the hundredths and the tenths printed
Fmt2(q) == RoundHalfEven(q[1] * 100, q[2])
Fmt1(q) == RoundHalfEven(q[1] * 10, q[2])

RECURSIVE AllManaValues(_)
AllManaValues(rs) ==
    IF rs = <<>> THEN <<>> ELSE rs[1].ManaValues \o AllManaValues(Tail(rs))

RECURSIVE SumCount(_)
SumCount(rs) == IF rs = <<>> THEN 0 ELSE rs[1].Count + SumCount(Tail(rs))

RECURSIVE SumTotalMana(_)
SumTotalMana(rs) ==
    IF rs = <<>> THEN 0 ELSE rs[1].TotalMana + SumTotalMana(Tail(rs))

RECURSIVE Medians(_)
Medians(rs) ==
    IF rs = <<>> THEN <<>> ELSE <<rs[1].MedianMana[1]>> \o Medians(Tail(rs))

\* the table with the median of the rows' medians in the totals row
printAnalysisTableMedianOfMedians(rs, period, p) ==
    LET totalCount == SumCount(rs)
        totalMana  == SumTotalMana(rs)
        overallAvgMana ==
            IF totalCount > 0 THEN Quot(totalMana, totalCount) ELSE Whole(0)
        overallMedianMana == calculateMedian(Medians(rs))
        Row(r) ==
            LET cells == [IssueType |-> r.IssueType, Count |-> r.Count,
                          TotalMana |-> Fmt2(Whole(r.TotalMana)),
                          AverageMana |-> Fmt2(r.AverageMana),
                          MedianMana |-> Fmt2(r.MedianMana)]
            IN  IF p = "main" THEN cells
                ELSE cells @@
                     [Percent |-> IF totalMana > 0
                                  THEN <<Fmt1(Quot(r.TotalMana * 100, totalMana))>>
                                  ELSE <<>>]
        totals ==
            LET cells == [IssueType |-> "TOTAL", Count |-> totalCount,
                          TotalMana |-> Fmt2(Whole(totalMana)),
                          AverageMana |-> Fmt2(overallAvgMana),
                          MedianMana |-> Fmt2(overallMedianMana)]
            IN  IF p = "main" THEN cells ELSE cells @@ [Percent |-> <<1000>>]
    IN  [kind |-> "table", period |-> period,
         rows |-> [i \in DOMAIN rs |-> Row(rs[i])], total |-> totals]

\* what printAnalysisTable(results, period) prints: the rows and the totals
\* row, numbers as the hundredths (%.2f) and tenths (%.1f) shown; the first
\* program's table has no "% of Total" column
printAnalysisTable(rs, period, p) ==
    LET totalCount == SumCount(rs)
        totalMana  == SumTotalMana(rs)
        allManaValues == AllManaValues(rs)
        overallAvgMana ==
            IF totalCount > 0 THEN Quot(totalMana, totalCount) ELSE Whole(0)
        overallMedianMana == calculateMedian(allManaValues)
        Row(r) ==
            LET cells == [IssueType |-> r.IssueType, Count |-> r.Count,
                          TotalMana |-> Fmt2(Whole(r.TotalMana)),
                          AverageMana |-> Fmt2(r.AverageMana),
                          MedianMana |-> Fmt2(r.MedianMana)]
            IN  IF p = "main" THEN cells
                ELSE cells @@
                     [Percent |-> IF totalMana > 0
                                  THEN <<Fmt1(Quot(r.TotalMana * 100, totalMana))>>
                                  ELSE <<>>]
        totals ==
            LET cells == [IssueType |-> "TOTAL", Count |-> totalCount,
                          TotalMana |-> Fmt2(Whole(totalMana)),
                          AverageMana |-> Fmt2(overallAvgMana),
                          MedianMana |-> Fmt2(overallMedianMana)]
            IN  IF p = "main" THEN cells ELSE cells @@ [Percent |-> <<1000>>]
    IN  [kind |-> "table", period |-> period,
         rows |-> [i \in DOMAIN rs |-> Row(rs[i])], total |-> totals]

Text(t) == [kind |-> "text", text |-> t]

----------------------------------------------------------------------------
(* The run of `main` (first program) and of `runTicketCommand` (later one) *)

\* MaxResults of every jira.SearchOptions
MaxResults == 50

Min(a, b) == IF a < b THEN a ELSE b

NoCall == [fn |-> "none", at |-> 0]

\* issues and resp are variables of the loop body: none outside the loop
NoPage == [len |-> 0, i |-> 0, total |-> 0]

\* a collaborator that may answer a search with an error or with any page
AnyServer == [kind |-> "any"]

\* a collaborator that serves a result set of n issues: a search returns the
\* issues from offset StartAt, at most MaxResults of them and at most its own
\* page limit, and Total = n; it keeps the offsets requested of it
FixedServer(n, limit) ==
    [kind |-> "fixed", total |-> n, limit |-> limit, requests |-> <<>>]

\* the fixed result set: the issues in some order, over and over
IssueList == CHOOSE o \in Orders(Issues) : TRUE

ServedAt(offset) == IssueList[(offset % Len(IssueList)) + 1]

\* the issues the collaborator may return at an offset
Served(offset) == IF server.kind = "fixed" THEN {ServedAt(offset)} ELSE Issues

\* runEpicCommand has not run
NoEpic == [at |-> "none"]

Init ==
    /\ prog \in Programs
    /\ args \in CommandLines(prog)
    /\ pc = "flags"
    /\ analysis = EmptyMap
    /\ monthlyAnalyses = <<>>
    /\ teamAnalyses = <<>>
    /\ startAt = 0
    /\ page = NoPage
    /\ results = <<>>
    /\ tbl = 0
    /\ stdout = <<>>
    /\ fetched = <<>>
    /\ call = NoCall
    /\ server = AnyServer
    /\ epic = NoEpic

\* flag and environment validation, date parsing, month allocation
ParseFlags ==
    /\ pc = "flags"
    /\ IF args.startDate = <<>> \/ args.endDate = <<>> \/ args.projectKey = ""
       THEN pc' = "exit" /\ UNCHANGED <<monthlyAnalyses, stdout>>
       ELSE IF ~args.env \/ ~ParseOK(args.startDate) \/ ~ParseOK(args.endDate)
       THEN pc' = "fatal" /\ UNCHANGED <<monthlyAnalyses, stdout>>
       ELSE /\ pc' = "search"
            /\ monthlyAnalyses' =
                 IF args.monthly
                 THEN AllocateMonths(Parse(args.startDate), Parse(args.endDate))
                 ELSE <<>>
            /\ stdout' = IF prog = "main" THEN <<Text("Debug Info")>> ELSE stdout
    /\ UNCHANGED <<prog, args, analysis, teamAnalyses, startAt, page, results,
                   tbl, fetched, call, server, epic>>

\* client.Issue.Search(jql, searchOpts): an error, or a page and resp.Total,
\* which is never less than the number of issues returned so far; an empty
\* page ends the loop.
\* The issues of the page are drawn one by one as ProcessIssue ranges over it.
Search ==
    /\ pc = "search"
    /\ IF server.kind = "fixed"
       THEN LET n == IF startAt >= server.total THEN 0
                     ELSE Min(Min(MaxResults, server.limit),
                              server.total - startAt)
            IN  /\ server' = [server EXCEPT !.requests = Append(@, startAt)]
                /\ IF n = 0
                   THEN pc' = "summarize" /\ page' = NoPage
                   ELSE pc' = "process"
                        /\ page' = [len |-> n, i |-> 0, total |-> server.total]
       ELSE /\ UNCHANGED server
            /\ \/ /\ pc' = "fatal"
                  /\ page' = NoPage
               \/ \E n \in 0..Min(MaxResults, MaxIssues - Len(fetched)),
                     total \in 0..MaxIssues :
                    /\ total >= startAt + n
                    /\ IF n = 0
                       THEN pc' = "summarize" /\ page' = NoPage
                       ELSE pc' = "process"
                            /\ page' = [len |-> n, i |-> 0, total |-> total]
    /\ UNCHANGED <<prog, args, analysis, monthlyAnalyses, teamAnalyses, startAt,
                   results, tbl, stdout, fetched, call, epic>>

\* the loop ended after its first page, whatever resp.Total says
LastPageAlways(offset, total) == offset > 0

\* if startAt >= resp.Total { break }
LastPage(offset, total) == offset >= total

\* one turn of `for _, issue := range issues`, and after the last issue of
\* the page `startAt += len(issues); if startAt >= resp.Total { break }`
ProcessIssue ==
    /\ pc = "process"
    /\ \E issue \in Served(startAt + page.i) :
        LET issueType == issueTypeOf(prog, args, issue)
            manaSpent == getManaPoints(Unknown(issue, "customfield_11267"))
        IN  /\ analysis' = AddMana(analysis, issueType, manaSpent)
            /\ teamAnalyses' =
                 IF args.teams
                 THEN AddToTeam(teamAnalyses, teamOf(prog, issue), issueType,
                                manaSpent)
                 ELSE teamAnalyses
            /\ monthlyAnalyses' =
                 IF args.monthly
                 THEN AddToMonth(monthlyAnalyses, issue.Resolutiondate,
                                 issueType, manaSpent)
                 ELSE monthlyAnalyses
            /\ fetched' = Append(fetched, issue)
    /\ IF page.i + 1 < page.len
       THEN /\ page' = [page EXCEPT !.i = @ + 1]
            /\ UNCHANGED <<pc, startAt>>
       ELSE /\ startAt' = startAt + page.len
            /\ page' = NoPage
            /\ pc' = IF LastPage(startAt', page.total) THEN "summarize"
                     ELSE "search"
    /\ UNCHANGED <<prog, args, results, tbl, stdout, call, server, epic>>

\* averages and medians of the overall analysis, results sorted, the header
\* printed, and with -teams the teams sorted by name
Summarize ==
    /\ pc = "summarize"
    /\ analysis' = WithAverages(analysis)
    /\ results' \in SortedResults(analysis')
    /\ stdout' = Append(stdout, Text("Analysis Period"))
    /\ teamAnalyses' = IF args.teams THEN SortTeams(teamAnalyses) ELSE teamAnalyses
    /\ tbl' = 1
    /\ pc' = IF args.teams
             THEN (IF teamAnalyses = <<>> THEN "summary" ELSE "teams")
             ELSE IF args.monthly
             THEN (IF monthlyAnalyses = <<>> THEN "summary" ELSE "months")
             ELSE "overall"
    /\ UNCHANGED <<prog, args, monthlyAnalyses, startAt, page, fetched, call, server, epic>>

\* one turn of `for _, ta := range teamAnalyses`
PrintTeamTable ==
    /\ pc = "teams"
    /\ LET a == WithAverages(teamAnalyses[tbl].Analysis)
       IN  /\ teamAnalyses' = [teamAnalyses EXCEPT ![tbl].Analysis = a]
           /\ \E teamResults \in SortedResults(a) :
                stdout' = Append(stdout,
                    printAnalysisTable(teamResults,
                                       <<"Team", teamAnalyses[tbl].Team>>, prog))
    /\ tbl' = tbl + 1
    /\ pc' = IF tbl' > Len(teamAnalyses) THEN "summary" ELSE pc
    /\ UNCHANGED <<prog, args, analysis, monthlyAnalyses, startAt, page,
                   results, fetched, call, server, epic>>

\* one turn of `for _, ma := range monthlyAnalyses`
PrintMonthTable ==
    /\ pc = "months"
    /\ LET a == WithAverages(monthlyAnalyses[tbl].Analysis)
           m == monthlyAnalyses[tbl].Month
       IN  /\ monthlyAnalyses' = [monthlyAnalyses EXCEPT ![tbl].Analysis = a]
           /\ \E monthResults \in SortedResults(a) :
                stdout' = Append(stdout,
                    printAnalysisTable(monthResults,
                                       <<"Month", Year(m), Month(m)>>, prog))
    /\ tbl' = tbl + 1
    /\ pc' = IF tbl' > Len(monthlyAnalyses) THEN "summary" ELSE pc
    /\ UNCHANGED <<prog, args, analysis, teamAnalyses, startAt, page, results,
                   fetched, call, server, epic>>

\* fmt.Printf("\nOVERALL SUMMARY:\n") and printAnalysisTable(results, "")
PrintOverall ==
    /\ pc \in {"summary", "overall"}
    /\ stdout' = (IF pc = "summary" THEN Append(stdout, Text("OVERALL SUMMARY:"))
                  ELSE stdout)
                 \o <<printAnalysisTable(results, <<>>, prog)>>
    /\ pc' = "done"
    /\ UNCHANGED <<prog, args, analysis, monthlyAnalyses, teamAnalyses, startAt,
                   page, results, tbl, fetched, call, server, epic>>

Next ==
    \/ ParseFlags
    \/ Search
    \/ ProcessIssue
    \/ Summarize
    \/ PrintTeamTable
    \/ PrintMonthTable
    \/ PrintOverall

----------------------------------------------------------------------------
(* runEpicCommand *)

\* the epics and the child tickets the search collaborator may return
EpicIssues ==
    { [Key |-> "EPIC-1", Status |-> "Resolved"],
      [Key |-> "EPIC-2", Status |-> "Closed"] }

ChildIssues ==
    { [Unknowns |-> WithMana(Str(LabelLarge), <<>>)],
      [Unknowns |-> WithMana(Map([k \in {"value"} |-> Str(LabelSmall)]), <<>>)] }

\* -start, -end and -project are the only flags of the epic command
EpicCommandLines ==
    {a \in CommandLines("ticket") :
        ~a.monthly /\ ~a.teams /\ ~a.brokenWindows /\ ~a.security}
      \cup {Flags(<<>>, <<2024, 3, 21>>, "PROJ", FALSE, FALSE, FALSE, FALSE, TRUE),
            Flags(<<2024, 13, 1>>, <<2024, 3, 21>>, "PROJ", FALSE, FALSE, FALSE,
                  FALSE, TRUE),
            Flags(<<2024, 1, 1>>, <<2024, 2, 30>>, "PROJ", FALSE, FALSE, FALSE,
                  FALSE, TRUE),
            Flags(<<2024, 1, 1>>, <<2024, 3, 21>>, "PROJ", FALSE, FALSE, FALSE,
                  FALSE, FALSE)}

\* childStartAt, totalManaSpent, totalChildren and childManaValues as the
\* body of `for _, issue := range issues` declares them
ChildLocals(issue) ==
    [issue |-> issue, childStartAt |-> 0, totalManaSpent |-> 0,
     totalChildren |-> 0, childManaValues |-> <<>>]

\* the locals of the loops, epicDetailsList and what log has written
NewEpicRun ==
    ChildLocals([Key |-> "", Status |-> ""])
      @@ [epicDetailsList |-> <<>>, log |-> <<>>]

EpicInit ==
    /\ prog = "epic"
    /\ args \in EpicCommandLines
    /\ pc = "flags"
    /\ analysis = EmptyMap
    /\ monthlyAnalyses = <<>>
    /\ teamAnalyses = <<>>
    /\ startAt = 0
    /\ page = NoPage
    /\ results = <<>>
    /\ tbl = 0
    /\ stdout = <<>>
    /\ fetched = <<>>
    /\ call = NoCall
    /\ server = AnyServer
    /\ epic = NewEpicRun

Logged(message) == [epic EXCEPT !.log = Append(@, message)]

\* flag and environment validation and date parsing
EpicParseFlags ==
    /\ pc = "flags"
    /\ IF args.startDate = <<>> \/ args.endDate = <<>> \/ args.projectKey = ""
       THEN pc' = "exit" /\ UNCHANGED epic
       ELSE IF ~args.env
       THEN pc' = "fatal"
            /\ epic' = Logged(<<"Missing required environment variables">>)
       ELSE IF ~ParseOK(args.startDate)
       THEN pc' = "fatal" /\ epic' = Logged(<<"Invalid start date format">>)
       ELSE IF ~ParseOK(args.endDate)
       THEN pc' = "fatal" /\ epic' = Logged(<<"Invalid end date format">>)
       ELSE pc' = "search" /\ UNCHANGED epic
    /\ UNCHANGED <<prog, args, analysis, monthlyAnalyses, teamAnalyses, startAt,
                   page, results, tbl, stdout, fetched, call, server>>

\* client.Issue.Search(jql, searchOpts) for a page of epics: log.Fatalf on an
\* error, break on an empty page
EpicSearch ==
    /\ pc = "search"
    /\ \/ /\ pc' = "fatal"
          /\ page' = NoPage
          /\ epic' = Logged(<<"Error searching issues">>)
       \/ \E n \in 0..Min(MaxResults, MaxEpics - Len(epic.epicDetailsList)),
             total \in 0..MaxEpics :
            /\ total >= startAt + n
            /\ IF n = 0
               THEN pc' = "report" /\ page' = NoPage
               ELSE pc' = "epic"
                    /\ page' = [len |-> n, i |-> 0, total |-> total]
            /\ UNCHANGED epic
    /\ UNCHANGED <<prog, args, analysis, monthlyAnalyses, teamAnalyses, startAt,
                   results, tbl, stdout, fetched, call, server>>

\* the top of one turn of `for _, issue := range issues`
EpicBegin ==
    /\ pc = "epic"
    /\ \E issue \in EpicIssues :
         epic' = ChildLocals(issue)
                   @@ [epicDetailsList |-> epic.epicDetailsList, log |-> epic.log]
    /\ pc' = "children"
    /\ UNCHANGED <<prog, args, analysis, monthlyAnalyses, teamAnalyses, startAt,
                   page, results, tbl, stdout, fetched, call, server>>

RECURSIVE ManaOfChildren(_)
ManaOfChildren(children) ==
    IF children = <<>> THEN <<>>
    ELSE <<getManaPoints(Unknown(children[1], "customfield_11267"))>>
            \o ManaOfChildren(Tail(children))

\* one turn of the child search loop: an error is logged and ends the loop,
\* an empty page ends it, any other page is added to the epic's numbers
ChildSearch ==
    /\ pc = "children"
    /\ \/ /\ epic' = Logged(<<"Error searching child tickets for epic",
                              epic.issue.Key>>)
          /\ pc' = "stats"
          /\ UNCHANGED fetched
       \/ \E n \in 0..Min(MaxResults, MaxChildren - Len(fetched)),
             total \in 0..MaxChildren :
            /\ total >= epic.childStartAt + n
            /\ IF n = 0
               THEN pc' = "stats" /\ UNCHANGED <<epic, fetched>>
               ELSE \E children \in [1..n -> ChildIssues] :
                      LET mana == ManaOfChildren(children)
                      IN  /\ epic' = [epic EXCEPT
                                 !.totalChildren = @ + n,
                                 !.totalManaSpent = @ + SumSeq(mana),
                                 !.childManaValues = @ \o mana,
                                 !.childStartAt = @ + n]
                          /\ fetched' = fetched \o children
                          /\ pc' = IF epic'.childStartAt >= total
                                   THEN "stats" ELSE "children"
    /\ UNCHANGED <<prog, args, analysis, monthlyAnalyses, teamAnalyses, startAt,
                   page, results, tbl, stdout, call, server>>

\* the epic's statistics, the update of analysis[status], the append to
\* epicDetailsList, and after the last epic of the page
\* `startAt += len(issues); if startAt >= resp.Total { break }`
EpicStats ==
    /\ pc = "stats"
    /\ LET avgManaPerTicket ==
               IF epic.totalChildren > 0
               THEN Quot(epic.totalManaSpent, epic.totalChildren) ELSE Whole(0)
           medianManaPerTicket == calculateMedian(epic.childManaValues)
           epicDetails ==
               [Key |-> epic.issue.Key, Status |-> epic.issue.Status,
                TotalTickets |-> epic.totalChildren,
                TotalMana |-> epic.totalManaSpent,
                AvgManaPerTicket |-> avgManaPerTicket,
                MedianMana |-> medianManaPerTicket]
       IN  /\ analysis' = AddMana(analysis, epic.issue.Status, epic.totalManaSpent)
           /\ epic' = [epic EXCEPT !.epicDetailsList = Append(@, epicDetails)]
    /\ IF page.i + 1 < page.len
       THEN /\ page' = [page EXCEPT !.i = @ + 1]
            /\ pc' = "epic"
            /\ UNCHANGED startAt
       ELSE /\ startAt' = startAt + page.len
            /\ page' = NoPage
            /\ pc' = IF startAt' >= page.total THEN "report" ELSE "search"
    /\ UNCHANGED <<prog, args, monthlyAnalyses, teamAnalyses, results, tbl,
                   stdout, fetched, call, server>>

\* the epicDetailsList slices sort.Slice may leave
SortedDetails(l) ==
    {r \in {[i \in DOMAIN l |-> l[o[i]]] : o \in Orders(DOMAIN l)} : IsSorted(r)}

\* one row of the "Epic Details" table, numbers as %.2f shows them
EpicRow(e) ==
    [Key |-> e.Key, Status |-> e.Status, TotalTickets |-> e.TotalTickets,
     TotalMana |-> Fmt2(Whole(e.TotalMana)),
     AvgManaPerTicket |-> Fmt2(e.AvgManaPerTicket),
     MedianMana |-> Fmt2(e.MedianMana)]

\* averages and medians per status, both slices sorted, header and table
EpicReport ==
    /\ pc = "report"
    /\ analysis' = WithAverages(analysis)
    /\ results' \in SortedResults(analysis')
    /\ \E sorted \in SortedDetails(epic.epicDetailsList) :
         /\ epic' = [epic EXCEPT !.epicDetailsList = sorted]
         /\ stdout' = stdout \o
              <<Text("Epic Analysis Period"),
                [kind |-> "epics",
                 rows |-> [i \in DOMAIN sorted |-> EpicRow(sorted[i])]]>>
    /\ pc' = "done"
    /\ UNCHANGED <<prog, args, monthlyAnalyses, teamAnalyses, startAt, page,
                   tbl, fetched, call, server>>

EpicNext ==
    \/ EpicParseFlags
    \/ EpicSearch
    \/ EpicBegin
    \/ ChildSearch
    \/ EpicStats
    \/ EpicReport

----------------------------------------------------------------------------
(* FnSpec: the three helper functions applied to drawn arguments *)

Pads == SeqsUpTo(WhiteSpace, MaxPad)

Labels == {LabelNone, LabelSmall, LabelMedium, LabelLarge, LabelXLarge,
           LabelXXLarge}

\* strings that are no label, however they are trimmed
NoLabels ==
    { <<>>,
      <<"Small">>,
      <<"Huge", " ", "(~1", " ", "month)">>,
      <<"small", " ", "(2", " ", "hours", " ", "or", " ", "less)">>,
      <<"Large", " ", " ", "(~1", " ", "day)">>,
      <<"Large", "\t", "(~1", " ", "day)">> }

ManaStrings == {l \o s \o r : l \in Pads, r \in Pads, s \in Labels \cup NoLabels}

ManaInputs ==
    {Nil, Num(8), List(<<Str(LabelLarge)>>)}
      \cup {Str(s) : s \in ManaStrings}
      \cup {Map([k \in {"value"} |-> Str(s)]) : s \in ManaStrings}
      \cup {Map([k \in {"self", "value", "id"} |->
                    IF k = "value" THEN Str(s) ELSE Str(<<k>>)]) :
                s \in Labels}
      \cup {Map([k \in {"value"} |-> Num(8)]),
            Map([k \in {"value"} |-> Nil]),
            Map([k \in {"value"} |-> Map([j \in {"value"} |-> Str(LabelLarge)])]),
            Map([k \in {"name"} |-> Str(LabelLarge)]),
            Map(<<>>)}

MedianValues == {2, 4, 5, 8, 20}

MedianInputs == SeqsUpTo(MedianValues, MaxLen)

TypeInputs ==
    {"Story", "Task", "Sub-task", "Bug", "Epic", "Spike", "task", "Subtask",
     "Story (incl. tasks)", "Broken Window", "Security Vuln.", ""}

\* issues of every type, with and without the marker label, with no link,
\* a link to a vulnerability in either direction and links to other issues,
\* under every setting of -broken-windows and -security
ClassifyIssues ==
    { [Type |-> t, Labels |-> ls, IssueLinks |-> ks, Unknowns |-> <<>>,
       Resolutiondate |-> Date(2024, 1, 1, 0)] :
        t \in {"Story", "Sub-task", "Bug", "Broken Window", "Security Vuln."},
        ls \in {<<>>, <<"regression">>, <<"regression", "ux-broken-window">>},
        ks \in {<<>>,
                <<Outward(Linked("Product Vulnerability"))>>,
                <<Inward(Linked("Product Vulnerability"))>>,
                <<Outward(Linked("Bug")), Inward(BareIssue)>>,
                <<Inward(Linked("Story")),
                  Outward(Linked("Product Vulnerability"))>>} }

ClassifyInputs ==
    { [flags |-> Flags(<<2024, 1, 1>>, <<2024, 3, 21>>, "PROJ", FALSE, FALSE,
                       bw, se, TRUE),
       issue |-> issue] :
        bw \in BOOLEAN, se \in BOOLEAN, issue \in ClassifyIssues }

RunVars ==
    <<args, pc, analysis, monthlyAnalyses, teamAnalyses, startAt, page,
      results, tbl, stdout, fetched, server, epic>>

FnInit ==
    /\ prog \in Programs
    /\ args = Flags(<<>>, <<>>, "", FALSE, FALSE, FALSE, FALSE, FALSE)
    /\ pc = "call"
    /\ analysis = EmptyMap
    /\ monthlyAnalyses = <<>>
    /\ teamAnalyses = <<>>
    /\ startAt = 0
    /\ page = NoPage
    /\ results = <<>>
    /\ tbl = 0
    /\ stdout = <<>>
    /\ fetched = <<>>
    /\ server = AnyServer
    /\ epic = NoEpic
    /\ \/ \E a \in ManaInputs   : call = [fn |-> "getManaPoints", at |-> 0, arg |-> a]
       \/ \E a \in ClassifyInputs :
            /\ (a.flags.brokenWindows \/ a.flags.security) => prog = "ticket"
            /\ call = [fn |-> "issueTypeOf", at |-> 0, arg |-> a]
       \/ \E a \in MedianInputs : call = [fn |-> "calculateMedian", at |-> 0, arg |-> a]
       \/ \E a \in TypeInputs   : call = [fn |-> "normalizeIssueType", at |-> 0, arg |-> a]

\* manaSpent := getManaPoints(manaField)
CallGetManaPoints ==
    /\ call.fn = "getManaPoints" /\ call.at = 0
    /\ call' = [call EXCEPT !.at = 1] @@ [ret |-> getManaPoints(call.arg)]
    /\ UNCHANGED <<prog, RunVars>>

\* m := calculateMedian(values), a first and a second time on the same slice
CallCalculateMedian ==
    /\ call.fn = "calculateMedian" /\ call.at \in {0, 1}
    /\ LET values == IF call.at = 0 THEN call.arg ELSE call.values
           r      == calculateMedianCall(values)
       IN  call' = IF call.at = 0
                   THEN [call EXCEPT !.at = 1] @@ [ret |-> r.ret, values |-> r.values]
                   ELSE [call EXCEPT !.at = 2, !.values = r.values] @@ [ret2 |-> r.ret]
    /\ UNCHANGED <<prog, RunVars>>

\* t := normalizeIssueType(name), then normalizeIssueType(t)
CallNormalizeIssueType ==
    /\ call.fn = "normalizeIssueType" /\ call.at \in {0, 1}
    /\ call' = IF call.at = 0
               THEN [call EXCEPT !.at = 1] @@ [ret |-> normalize(prog, call.arg)]
               ELSE [call EXCEPT !.at = 2] @@ [ret2 |-> normalize(prog, call.ret)]
    /\ UNCHANGED <<prog, RunVars>>

\* issueType as one turn of `for _, issue := range issues` classifies it
CallIssueTypeOf ==
    /\ call.fn = "issueTypeOf" /\ call.at = 0
    /\ call' = [call EXCEPT !.at = 1]
                  @@ [ret |-> issueTypeOf(prog, call.arg.flags, call.arg.issue)]
    /\ UNCHANGED <<prog, RunVars>>

FnNext ==
    \/ CallGetManaPoints
    \/ CallCalculateMedian
    \/ CallNormalizeIssueType
    \/ CallIssueTypeOf

vars == <<prog, args, pc, analysis, monthlyAnalyses, teamAnalyses, startAt,
          page, results, tbl, stdout, fetched, call, server, epic>>

Spec == Init /\ [][Next]_vars

FnSpec == FnInit /\ [][FnNext]_vars

EpicSpec == EpicInit /\ [][EpicNext]_vars

\* runs without grouping and with -teams
PageCommandLines(p) ==
    {a \in FlagCombinations(p) :
        ~a.brokenWindows /\ ~a.security /\ ~a.monthly}

\* the collaborator's page limits: one issue, two issues, or more than the
\* run asks for
PageLimits == {1, 2, MaxResults + 1}

\* a run against a collaborator that serves a fixed result set
PageInit ==
    /\ prog \in Programs
    /\ args \in PageCommandLines(prog)
    /\ pc = "flags"
    /\ analysis = EmptyMap
    /\ monthlyAnalyses = <<>>
    /\ teamAnalyses = <<>>
    /\ startAt = 0
    /\ page = NoPage
    /\ results = <<>>
    /\ tbl = 0
    /\ stdout = <<>>
    /\ fetched = <<>>
    /\ call = NoCall
    /\ server \in {FixedServer(n, limit) : n \in 0..MaxTotal, limit \in PageLimits}
    /\ epic = NoEpic

\* the steps of a run without -monthly
PageNext ==
    \/ ParseFlags
    \/ Search
    \/ ProcessIssue
    \/ Summarize
    \/ PrintTeamTable
    \/ PrintOverall

\* the steps up to the end of the fetch loop
FetchStep == ParseFlags \/ Search \/ ProcessIssue

\* the run is one sequential program: a step of the fetch loop that can be
\* taken is taken
PageSpec == PageInit /\ [][PageNext]_vars /\ WF_vars(FetchStep)

----------------------------------------------------------------------------
(* Claims about the helper functions, checked under FnSpec *)

\* the hours the README's table documents for a label
DocumentedHours(label) ==
    CASE label = LabelNone    -> 0
      [] label = LabelSmall   -> 2
      [] label = LabelMedium  -> 4
      [] label = LabelLarge   -> 8
      [] label = LabelXLarge  -> 20
      [] label = LabelXXLarge -> 40

\* s is the label with nothing but whitespace before and after it
IsPadded(s, label) ==
    \E i \in 1..(Len(s) + 1), j \in 0..Len(s) :
        /\ SubSeq(s, i, j) = label
        /\ \A n \in 1..(i - 1) : s[n] \in WhiteSpace
        /\ \A n \in (j + 1)..Len(s) : s[n] \in WhiteSpace

\* the plain string, or the string under "value", that a value carries
Carries(v, s) ==
    \/ v.kind = "string" /\ v.str = s
    \/ v.kind = "map" /\ "value" \in DOMAIN v.m
         /\ v.m["value"].kind = "string" /\ v.m["value"].str = s

\* C1: getManaPoints returns the documented hours of the effort label its
\* argument carries, as a plain string or under the key "value", whatever
\* whitespace surrounds the label, and 0 for every other argument.
C1_ManaPoints ==
    (call.fn = "getManaPoints" /\ call.at = 1) =>
        /\ \A label \in Labels :
             (\E s \in ManaStrings : Carries(call.arg, s) /\ IsPadded(s, label))
                => call.ret = DocumentedHours(label)
        /\ (~\E label \in Labels, s \in ManaStrings :
                Carries(call.arg, s) /\ IsPadded(s, label))
                => call.ret = 0

\* a structured value carrying " \tX-Large (~2-3 days) " was mapped to 20
C1_Witness ==
    /\ call.fn = "getManaPoints" /\ call.at = 1
    /\ call.arg.kind = "map"
    /\ Carries(call.arg, <<" ", "\t">> \o LabelXLarge \o <<" ">>)
    /\ call.ret = 20

\* the n-th smallest of the values of s, counted with repetitions
NthSmallest(s, n) ==
    CHOOSE v \in Range(s) :
        /\ Cardinality({i \in DOMAIN s : s[i] < v}) < n
        /\ Cardinality({i \in DOMAIN s : s[i] <= v}) >= n

\* quotient q equals n / d
QuotEquals(q, n, d) == q[2] > 0 /\ q[1] * d = n * q[2]

IsMedianOf(q, s) ==
    IF Len(s) = 0 THEN QuotEquals(q, 0, 1)
    ELSE IF Len(s) % 2 = 1
    THEN QuotEquals(q, NthSmallest(s, (Len(s) + 1) \div 2), 1)
    ELSE QuotEquals(q, NthSmallest(s, Len(s) \div 2)
                        + NthSmallest(s, (Len(s) \div 2) + 1), 2)

\* C2: calculateMedian returns 0 for no values, the middle one of the sorted
\* values for an odd number of them, the mean of the two middle ones for an
\* even number; the caller's slice is as it was, and a second call returns
\* the same.
C2_Median ==
    (call.fn = "calculateMedian" /\ call.at >= 1) =>
        /\ IsMedianOf(call.ret, call.arg)
        /\ call.values = call.arg
        /\ call.at = 2 => call.ret2 = call.ret

\* the unsorted slice <<20, 2, 8, 4>> gave 6 twice and is still unsorted
C2_Witness ==
    /\ call.fn = "calculateMedian" /\ call.at = 2
    /\ call.arg = <<20, 2, 8, 4>>
    /\ call.values = <<20, 2, 8, 4>>
    /\ call.ret = <<6, 1>> /\ call.ret2 = <<6, 1>>

\* the category a Story is counted under
StoryCategory == IF prog = "main" THEN "Story" ELSE "Story (incl. tasks)"

\* C7: normalizeIssueType gives "Task" and "Sub-task" the category "Story"
\* has, leaves every other issue type as it is, and applied to its own
\* result changes nothing.
C7_Normalize ==
    (call.fn = "normalizeIssueType" /\ call.at >= 1) =>
        /\ call.arg \in {"Story", "Task", "Sub-task"} => call.ret = StoryCategory
        /\ call.arg \notin {"Story", "Task", "Sub-task"} => call.ret = call.arg
        /\ call.at = 2 => call.ret2 = call.ret

\* the later program has folded a Sub-task into the Story category, twice
C7_Witness ==
    /\ call.fn = "normalizeIssueType" /\ call.at = 2
    /\ prog = "ticket"
    /\ call.arg = "Sub-task"
    /\ call.ret = "Story (incl. tasks)"

----------------------------------------------------------------------------
(* Claims about a run, checked under Spec *)

\* the run got past its flags and dates and has allocated its buckets
Started ==
    pc \in {"search", "process", "summarize", "teams", "months", "summary",
            "overall", "done"}

\* every TicketAnalysis of every bucket
Aggregates ==
    {analysis[c] : c \in DOMAIN analysis}
      \cup UNION {{teamAnalyses[i].Analysis[c] : c \in DOMAIN teamAnalyses[i].Analysis} :
                    i \in DOMAIN teamAnalyses}
      \cup UNION {{monthlyAnalyses[i].Analysis[c] : c \in DOMAIN monthlyAnalyses[i].Analysis} :
                    i \in DOMAIN monthlyAnalyses}

\* from map a to map b no entry went away, and an entry's values are as they
\* were or have one more value at the end
AppendOnly(a, b) ==
    \A c \in DOMAIN a :
        /\ c \in DOMAIN b
        /\ b[c].Count >= a[c].Count
        /\ Len(b[c].ManaValues) \in {Len(a[c].ManaValues), Len(a[c].ManaValues) + 1}
        /\ SubSeq(b[c].ManaValues, 1, Len(a[c].ManaValues)) = a[c].ManaValues

AppendOnlyStep ==
    /\ AppendOnly(analysis, analysis')
    /\ \A i \in DOMAIN teamAnalyses :
         \E j \in DOMAIN teamAnalyses' :
            /\ teamAnalyses'[j].Team = teamAnalyses[i].Team
            /\ AppendOnly(teamAnalyses[i].Analysis, teamAnalyses'[j].Analysis)
    /\ \A i \in DOMAIN monthlyAnalyses :
         /\ i \in DOMAIN monthlyAnalyses'
         /\ monthlyAnalyses'[i].Month = monthlyAnalyses[i].Month
         /\ AppendOnly(monthlyAnalyses[i].Analysis, monthlyAnalyses'[i].Analysis)

\* C3: in every aggregate of every bucket Count is the number of ManaValues
\* and TotalMana their sum; a step leaves an aggregate's values alone or
\* appends one value, never lowers Count and never removes an aggregate.
C3_Aggregates ==
    /\ [](\A a \in Aggregates :
            a.Count = Len(a.ManaValues) /\ a.TotalMana = SumSeq(a.ManaValues))
    /\ [][AppendOnlyStep]_vars

\* three issues went into the overall, a team and a month bucket, and the
\* teams have been sorted since
C3_Witness ==
    /\ pc = "done"
    /\ args.teams /\ args.monthly
    /\ \E c \in DOMAIN analysis : analysis[c].ManaValues = <<8, 4, 4>>
    /\ \E i \in DOMAIN teamAnalyses : \E c \in DOMAIN teamAnalyses[i].Analysis :
          teamAnalyses[i].Analysis[c].ManaValues = <<4, 4>>
    /\ \E i \in DOMAIN monthlyAnalyses : \E c \in DOMAIN monthlyAnalyses[i].Analysis :
          monthlyAnalyses[i].Analysis[c].ManaValues = <<4, 4>>

\* the tables printed so far
Tables == {i \in DOMAIN stdout : stdout[i].kind = "table"}

CategoryOf(issue) == issueTypeOf(prog, args, issue)

HoursOf(issue) == getManaPoints(Unknown(issue, "customfield_11267"))

\* the hours of the fetched issues of category c, in order
RECURSIVE HoursIn(_, _)
HoursIn(fs, c) ==
    IF fs = <<>> THEN <<>>
    ELSE (IF CategoryOf(fs[1]) = c THEN <<HoursOf(fs[1])>> ELSE <<>>)
            \o HoursIn(Tail(fs), c)

\* x hundredths is what %.2f shows of n / d: the hundredth nearest to it
Shows(x, n, d) ==
    LET diff == x * d - 100 * n
    IN  2 * Abs(diff) <= d

\* twice the median of the values s, by order statistics
TwiceMedian(s) ==
    IF Len(s) = 0 THEN 0
    ELSE IF Len(s) % 2 = 1 THEN 2 * NthSmallest(s, (Len(s) + 1) \div 2)
    ELSE NthSmallest(s, Len(s) \div 2) + NthSmallest(s, (Len(s) \div 2) + 1)

\* C4: at the end of a run, in every grouping mode, the overall table has
\* one row for each category with at least one fetched issue and no other
\* row; the row shows the number of the category's issues, the sum of their
\* hours, sum / number (0 for no issues) and the median of their hours.
C4_OverallTable ==
    pc = "done" =>
        LET t    == stdout[Len(stdout)]
            cats == {CategoryOf(fetched[i]) : i \in DOMAIN fetched}
        IN  /\ t.kind = "table" /\ t.period = <<>>
            /\ \A c \in cats :
                 Cardinality({i \in DOMAIN t.rows : t.rows[i].IssueType = c}) = 1
            /\ \A i \in DOMAIN t.rows :
                 LET row   == t.rows[i]
                     hours == HoursIn(fetched, row.IssueType)
                 IN  /\ row.IssueType \in cats
                     /\ row.Count = Len(hours)
                     /\ Shows(row.TotalMana, SumSeq(hours), 1)
                     /\ IF row.Count = 0 THEN row.AverageMana = 0
                        ELSE Shows(row.AverageMana, SumSeq(hours), row.Count)
                     /\ Shows(row.MedianMana, TwiceMedian(hours), 2)

\* Story/Large, Task/Medium, Bug/Small: Story 2, 12, 6, 6 and Bug 1, 2, 2, 2
C4_Witness ==
    /\ pc = "done" /\ prog = "main" /\ args.monthly /\ ~args.teams
    /\ Len(fetched) = 3
    /\ fetched[1].Type = "Story" /\ HoursOf(fetched[1]) = 8
    /\ fetched[2].Type = "Task" /\ HoursOf(fetched[2]) = 4
    /\ fetched[3].Type = "Bug" /\ HoursOf(fetched[3]) = 2
    /\ LET rows == stdout[Len(stdout)].rows
       IN  /\ Len(rows) = 2
           /\ rows[1] = [IssueType |-> "Story", Count |-> 2, TotalMana |-> 1200,
                         AverageMana |-> 600, MedianMana |-> 600]
           /\ rows[2] = [IssueType |-> "Bug", Count |-> 1, TotalMana |-> 200,
                         AverageMana |-> 200, MedianMana |-> 200]

\* C5: in every table printed, overall, per team or per month, each row's
\* total is at least the total of the row below it.
C5_RowsDescending ==
    \A i \in Tables :
        \A r \in 1..(Len(stdout[i].rows) - 1) :
            stdout[i].rows[r].TotalMana >= stdout[i].rows[r + 1].TotalMana

\* a month table and the overall table of one run, each with two rows of
\* different totals
C5_Witness ==
    /\ pc = "done"
    /\ \E i \in Tables :
         /\ stdout[i].period # <<>> /\ stdout[i].period[1] = "Month"
         /\ Len(stdout[i].rows) = 2
         /\ stdout[i].rows[1].TotalMana > stdout[i].rows[2].TotalMana
    /\ \E i \in Tables :
         /\ stdout[i].period = <<>>
         /\ Len(stdout[i].rows) = 2
         /\ stdout[i].rows[1].TotalMana > stdout[i].rows[2].TotalMana

\* the bucket a table was printed from
BucketOf(period) ==
    IF period = <<>> THEN analysis
    ELSE IF period[1] = "Team"
    THEN teamAnalyses[TeamIndex(teamAnalyses, period[2])].Analysis
    ELSE LET i == CHOOSE j \in DOMAIN monthlyAnalyses :
                    /\ Year(monthlyAnalyses[j].Month) = period[2]
                    /\ Month(monthlyAnalyses[j].Month) = period[3]
         IN  monthlyAnalyses[i].Analysis

\* all values of all aggregates of map a, in some order
RECURSIVE ValuesOf(_, _)
ValuesOf(a, cs) ==
    IF cs = {} THEN <<>>
    ELSE LET c == CHOOSE x \in cs : TRUE
         IN  a[c].ManaValues \o ValuesOf(a, cs \ {c})

RECURSIVE SumOver(_, _)
SumOver(rows, field) ==
    IF rows = <<>> THEN 0 ELSE rows[1][field] + SumOver(Tail(rows), field)

\* C6: the totals row of every table shows the sum of the rows' counts, the
\* sum of the rows' totals, that total / that count (0 for no issues) and
\* the median of all the single values of the table's bucket.
C6_TotalsRow ==
    \A i \in Tables :
        LET t      == stdout[i]
            bucket == BucketOf(t.period)
            values == ValuesOf(bucket, DOMAIN bucket)
        IN  /\ t.total.Count = SumOver(t.rows, "Count")
            /\ t.total.TotalMana = SumOver(t.rows, "TotalMana")
            /\ IF t.total.Count = 0 THEN t.total.AverageMana = 0
               ELSE Shows(t.total.AverageMana, SumSeq(values), t.total.Count)
            /\ Len(values) = t.total.Count
            /\ Shows(t.total.MedianMana, TwiceMedian(values), 2)

\* a table of two rows with medians 8 and 2 whose totals row shows the
\* median 8 of the three values
C6_Witness ==
    \E i \in Tables :
        /\ Len(stdout[i].rows) = 2
        /\ stdout[i].rows[1].Count = 2 /\ stdout[i].rows[1].MedianMana = 800
        /\ stdout[i].rows[2].Count = 1 /\ stdout[i].rows[2].MedianMana = 200
        /\ stdout[i].total.Count = 3
        /\ stdout[i].total.MedianMana = 800

CountIn(a, c) == IF c \in DOMAIN a THEN a[c].Count ELSE 0

\* the categories whose count differs between maps a and b
Changed(a, b) ==
    {c \in DOMAIN a \cup DOMAIN b : CountIn(a, c) # CountIn(b, c)}

\* every bucket map of the teams or months, before and after, by position
ChangedInTeams ==
    UNION {Changed(IF i \in DOMAIN teamAnalyses
                   THEN teamAnalyses[i].Analysis ELSE EmptyMap,
                   teamAnalyses'[i].Analysis) : i \in DOMAIN teamAnalyses'}

ChangedInMonths ==
    UNION {Changed(monthlyAnalyses[i].Analysis, monthlyAnalyses'[i].Analysis) :
                i \in DOMAIN monthlyAnalyses}

\* C8: with both overrides on, an issue with the label "ux-broken-window"
\* and a link to a "Product Vulnerability" issue is counted under "Broken
\* Window" and not under "Security Vuln."; every issue raises the count of
\* exactly one category, by one.
C8_LabelBeforeLink ==
    [][fetched' # fetched =>
        LET issue == fetched'[Len(fetched')]
        IN  /\ \E c \in DOMAIN analysis' :
                 /\ Changed(analysis, analysis') = {c}
                 /\ CountIn(analysis', c) = CountIn(analysis, c) + 1
                 /\ ChangedInTeams \subseteq {c}
                 /\ ChangedInMonths \subseteq {c}
            /\ (/\ args.brokenWindows /\ args.security
                /\ HasBrokenWindowLabel(issue) /\ HasVulnerabilityLink(issue))
                 => /\ Changed(analysis, analysis') = {"Broken Window"}
                    /\ CountIn(analysis', "Security Vuln.")
                         = CountIn(analysis, "Security Vuln.")
       ]_vars

\* both overrides on, the issue with label and link fetched after an issue
\* counted as "Security Vuln."
C8_Witness ==
    /\ args.brokenWindows /\ args.security
    /\ Len(fetched) = 2
    /\ ~HasBrokenWindowLabel(fetched[1]) /\ HasVulnerabilityLink(fetched[1])
    /\ HasBrokenWindowLabel(fetched[2]) /\ HasVulnerabilityLink(fetched[2])
    /\ CountIn(analysis, "Broken Window") = 1
    /\ CountIn(analysis, "Security Vuln.") = 1

\* months counted from year 0
MonthNumber(y, m) == y * 12 + (m - 1)

\* C9: with -monthly the allocated buckets are the calendar months from the
\* month of the start date to the month of the end date, both included, one
\* bucket each, in order, each at the first instant of its month.
C9_MonthBuckets ==
    (Started /\ args.monthly) =>
        LET first == MonthNumber(args.startDate[1], args.startDate[2])
            last  == MonthNumber(args.endDate[1], args.endDate[2])
        IN  /\ Len(monthlyAnalyses) = (IF last >= first THEN last - first + 1 ELSE 0)
            /\ \A i \in DOMAIN monthlyAnalyses :
                 LET n == first + (i - 1)
                     t == monthlyAnalyses[i].Month
                 IN  /\ t = Date(n \div 12, (n % 12) + 1, 1, 0)
                     /\ Year(t) = n \div 12 /\ Month(t) = (n % 12) + 1
                     /\ Day(t) = 1 /\ t % TicksPerDay = 0

\* 2023-12-15 to 2024-01-10: December 2023, then January 2024
C9_Witness ==
    /\ Started /\ args.monthly
    /\ args.startDate = <<2023, 12, 15>> /\ args.endDate = <<2024, 1, 10>>
    /\ Len(monthlyAnalyses) = 2
    /\ monthlyAnalyses[1].Month = Date(2023, 12, 1, 0)
    /\ monthlyAnalyses[2].Month = Date(2024, 1, 1, 0)

\* issues counted in a bucket map
RECURSIVE CountAll(_, _)
CountAll(a, cs) ==
    IF cs = {} THEN 0
    ELSE LET c == CHOOSE x \in cs : TRUE
         IN  a[c].Count + CountAll(a, cs \ {c})

\* C10: with -monthly every fetched issue whose resolution date lies in a
\* calendar month that has a bucket is counted in that bucket and in no
\* other, at whatever instant of the month, the first and any within the
\* last second included: each bucket counts the fetched issues of its month.
C10_MonthOfIssue ==
    (Started /\ args.monthly) =>
        \A i \in DOMAIN monthlyAnalyses :
            LET bucket == monthlyAnalyses[i]
            IN  CountAll(bucket.Analysis, DOMAIN bucket.Analysis)
                  = Cardinality({j \in DOMAIN fetched :
                        /\ Year(fetched[j].Resolutiondate) = Year(bucket.Month)
                        /\ Month(fetched[j].Resolutiondate) = Month(bucket.Month)})

----------------------------------------------------------------------------
(* the "% of Total" column *)

\* x tenths is what %.1f shows of n / d * 100: the tenth nearest to it
ShowsPercent(x, n, d) ==
    LET diff == x * d - 1000 * n
    IN  2 * Abs(diff) <= d

\* C11: in every table with a percentage column each row shows its total /
\* the table's grand total * 100, and a table whose grand total is 0 shows
\* no percentage in any row, the totals row included.
C11_PercentColumn ==
    \A i \in Tables :
        LET t == stdout[i]
        IN  "Percent" \in DOMAIN t.total =>
              IF t.total.TotalMana > 0
              THEN \A j \in DOMAIN t.rows :
                     /\ Len(t.rows[j].Percent) = 1
                     /\ ShowsPercent(t.rows[j].Percent[1],
                                     t.rows[j].TotalMana, t.total.TotalMana)
              ELSE /\ \A j \in DOMAIN t.rows : t.rows[j].Percent = <<>>
                   /\ t.total.Percent = <<>>

----------------------------------------------------------------------------
(* team buckets *)

\* the team field each program reads
TeamField(issue) ==
    Unknown(issue, IF prog = "main" THEN "team" ELSE "customfield_10800")

\* the team name an issue carries, <<>> when the field is absent or is not
\* of the shape the program reads (a text; an object with a text "name")
NamedTeam(issue) ==
    LET f == TeamField(issue)
    IN  IF prog = "main"
        THEN (IF f.kind = "string" THEN <<f.str>> ELSE <<>>)
        ELSE IF f.kind = "map" /\ "name" \in DOMAIN f.m
                               /\ f.m["name"].kind = "string"
        THEN <<f.m["name"].str>>
        ELSE <<>>

ExpectedTeam(issue) ==
    IF NamedTeam(issue) \in {<<>>, <<"">>} THEN "No Team" ELSE NamedTeam(issue)[1]

\* the hours of the fetched issues of a team and a category, in order
RECURSIVE HoursOfTeam(_, _, _)
HoursOfTeam(fs, team, c) ==
    IF fs = <<>> THEN <<>>
    ELSE (IF ExpectedTeam(fs[1]) = team /\ CategoryOf(fs[1]) = c
          THEN <<HoursOf(fs[1])>> ELSE <<>>)
            \o HoursOfTeam(Tail(fs), team, c)

ValuesIn(a, c) == IF c \in DOMAIN a THEN a[c].ManaValues ELSE <<>>

TotalIn(a, c) == IF c \in DOMAIN a THEN a[c].TotalMana ELSE 0

\* count and total of category c summed over the buckets bs
RECURSIVE CountOverBuckets(_, _)
CountOverBuckets(bs, c) ==
    IF bs = <<>> THEN 0
    ELSE CountIn(bs[1].Analysis, c) + CountOverBuckets(Tail(bs), c)

RECURSIVE TotalOverBuckets(_, _)
TotalOverBuckets(bs, c) ==
    IF bs = <<>> THEN 0
    ELSE TotalIn(bs[1].Analysis, c) + TotalOverBuckets(Tail(bs), c)

\* C12: with -teams every fetched issue is in exactly one team bucket, the
\* one named by its team value or "No Team" when the value is absent, empty
\* or malformed; there is one bucket for each team name met and no other;
\* for every category the buckets' counts and totals add up to the overall
\* count and total.
C12_TeamBuckets ==
    (Started /\ args.teams) =>
        LET cats == {CategoryOf(fetched[i]) : i \in DOMAIN fetched}
        IN  /\ \A i, j \in DOMAIN teamAnalyses :
                 i # j => teamAnalyses[i].Team # teamAnalyses[j].Team
            /\ {teamAnalyses[i].Team : i \in DOMAIN teamAnalyses}
                 = {ExpectedTeam(fetched[i]) : i \in DOMAIN fetched}
            /\ \A i \in DOMAIN teamAnalyses :
                 LET b == teamAnalyses[i]
                 IN  /\ DOMAIN b.Analysis \subseteq cats
                     /\ \A c \in cats :
                          ValuesIn(b.Analysis, c) = HoursOfTeam(fetched, b.Team, c)
            /\ DOMAIN analysis = cats
            /\ \A c \in cats :
                 /\ CountOverBuckets(teamAnalyses, c) = analysis[c].Count
                 /\ TotalOverBuckets(teamAnalyses, c) = analysis[c].TotalMana

\* a team's issue, an issue without team field and an issue with a team
\* field of the wrong shape: the bucket "No Team" holds the last two
C12_Witness ==
    /\ pc = "done" /\ args.teams
    /\ Len(fetched) = 3
    /\ NamedTeam(fetched[1]) = <<"Alpha">>
    /\ TeamField(fetched[2]).kind = "nil"
    /\ TeamField(fetched[3]).kind # "nil" /\ NamedTeam(fetched[3]) = <<>>
    /\ Len(teamAnalyses) = 2
    /\ teamAnalyses[2].Team = "No Team"
    /\ CountAll(teamAnalyses[2].Analysis, DOMAIN teamAnalyses[2].Analysis) = 2

----------------------------------------------------------------------------
(* the overall table and the bucket tables *)

\* the tables of the teams or months, and the overall table
BucketTables == {i \in Tables : stdout[i].period # <<>>}

OverallTable == stdout[Len(stdout)]

\* what the rows of category c show in a column, summed
RECURSIVE CellOfCategory(_, _, _)
CellOfCategory(rows, c, field) ==
    IF rows = <<>> THEN 0
    ELSE (IF rows[1].IssueType = c THEN rows[1][field] ELSE 0)
            + CellOfCategory(Tail(rows), c, field)

\* a column of category c summed over the tables ts
RECURSIVE CellOverTables(_, _, _)
CellOverTables(ts, c, field) ==
    IF ts = {} THEN 0
    ELSE LET i == CHOOSE x \in ts : TRUE
         IN  CellOfCategory(stdout[i].rows, c, field)
               + CellOverTables(ts \ {i}, c, field)

RECURSIVE GrandCountOver(_)
GrandCountOver(ts) ==
    IF ts = {} THEN 0
    ELSE LET i == CHOOSE x \in ts : TRUE
         IN  stdout[i].total.Count + GrandCountOver(ts \ {i})

RowCategories(ts) ==
    UNION {{stdout[i].rows[j].IssueType : j \in DOMAIN stdout[i].rows} : i \in ts}

\* C13 as claimed: when team or month tables are printed, every category's
\* count and total in the overall table are the sums of its counts and
\* totals over the team or month tables, and the overall grand count is the
\* sum of their grand counts.
C13_OverallIsSumOfBuckets ==
    (pc = "done" /\ BucketTables # {}) =>
        /\ \A c \in RowCategories(Tables) :
             /\ CellOfCategory(OverallTable.rows, c, "Count")
                  = CellOverTables(BucketTables, c, "Count")
             /\ CellOfCategory(OverallTable.rows, c, "TotalMana")
                  = CellOverTables(BucketTables, c, "TotalMana")
        /\ OverallTable.total.Count = GrandCountOver(BucketTables)

\* the fetched issues resolved within no month bucket: before the first
\* month, after the last, or later than one second before a month's end
OutsideMonths ==
    {i \in DOMAIN fetched :
        \A j \in DOMAIN monthlyAnalyses :
            LET first == monthlyAnalyses[j].Month
                last  == AddMonth(first) - TicksPerSecond
            IN  ~(first <= fetched[i].Resolutiondate
                    /\ fetched[i].Resolutiondate <= last)}

RECURSIVE HoursOfSet(_)
HoursOfSet(is) ==
    IF is = {} THEN 0
    ELSE LET i == CHOOSE x \in is : TRUE
         IN  HoursOf(fetched[i]) + HoursOfSet(is \ {i})

\* C13: with team tables the overall table's count and total of every
\* category and its grand count are the sums over the team tables; with
\* month tables they are the sums over the month tables plus the issues
\* resolved within no month bucket, which are in the overall table only.
C13_OverallCoversBuckets ==
    (pc = "done" /\ BucketTables # {}) =>
        LET outside == IF args.teams THEN {} ELSE OutsideMonths
            Of(c)   == {i \in outside : CategoryOf(fetched[i]) = c}
        IN  /\ \A c \in RowCategories(Tables) :
                 /\ CellOfCategory(OverallTable.rows, c, "Count")
                      = CellOverTables(BucketTables, c, "Count")
                          + Cardinality(Of(c))
                 /\ CellOfCategory(OverallTable.rows, c, "TotalMana")
                      = CellOverTables(BucketTables, c, "TotalMana")
                          + 100 * HoursOfSet(Of(c))
            /\ OverallTable.total.Count
                 = GrandCountOver(BucketTables) + Cardinality(outside)

\* month tables of a run that fetched an issue of a month, an issue
\* resolved after the last month and one resolved within the last second
\* of a month
C13_Witness ==
    /\ pc = "done" /\ args.monthly /\ ~args.teams
    /\ Len(fetched) = 3
    /\ Cardinality(BucketTables) = 2
    /\ GrandCountOver(BucketTables) = 1
    /\ OverallTable.total.Count = 3
    /\ \E i \in OutsideMonths :
         fetched[i].Resolutiondate
            >= AddMonth(monthlyAnalyses[Len(monthlyAnalyses)].Month)
    /\ \E i \in OutsideMonths : \E j \in DOMAIN monthlyAnalyses :
         /\ fetched[i].Resolutiondate >= monthlyAnalyses[j].Month
         /\ fetched[i].Resolutiondate < AddMonth(monthlyAnalyses[j].Month)

----------------------------------------------------------------------------
(* Claims about the epic command, checked under EpicSpec *)

\* a search of epics or of an epic's child tickets has failed
SearchFailed ==
    \E i \in DOMAIN epic.log :
        epic.log[i][1] \in {"Error searching issues",
                            "Error searching child tickets for epic"}

\* C14: once a search has failed (a page of epics or a page of an epic's
\* child tickets) the run has halted: it is at its fatal exit, it searches
\* no further and it has printed no table.
C14_SearchErrorHalts ==
    SearchFailed =>
        /\ pc = "fatal"
        /\ \A i \in DOMAIN stdout : stdout[i].kind = "text"

----------------------------------------------------------------------------
(* input validation *)

\* a required flag is missing, a date does not parse, or the start date is
\* later than the end date
InvalidInput ==
    \/ args.startDate = <<>> \/ args.endDate = <<>> \/ args.projectKey = ""
    \/ ~ParseOK(args.startDate) \/ ~ParseOK(args.endDate)
    \/ Parse(args.startDate) > Parse(args.endDate)

\* a step that issues a search query
SearchStep == pc = "search" /\ pc' # "search"

\* C15: a run with a required flag missing, with a date that does not parse
\* or with a start date later than its end date issues no search query.
C15_NoSearchOnInvalidInput == [][InvalidInput => ~SearchStep]_vars

----------------------------------------------------------------------------
(* the stored average and median *)

\* the average and the median of aggregate a are those of its values
IsCurrent(a) ==
    /\ IF a.Count = 0 THEN QuotEquals(a.AverageMana, 0, 1)
       ELSE QuotEquals(a.AverageMana, a.TotalMana, a.Count)
    /\ IsMedianOf(a.MedianMana, a.ManaValues)

\* the average and the median of aggregate a are as NewTicketAnalysis left them
IsUnset(a) ==
    QuotEquals(a.AverageMana, 0, 1) /\ QuotEquals(a.MedianMana, 0, 1)

\* C16 as claimed: in every state of a run the average and the median of
\* every aggregate are those of its current values, between two issues and
\* after the last one.
C16_AlwaysCurrent == \A a \in Aggregates : IsCurrent(a)

Summarized == pc \in {"teams", "months", "summary", "overall", "done"}

\* the team and month buckets whose table has been printed
PrintedTeams ==
    IF ~(Summarized /\ args.teams) THEN {}
    ELSE IF pc = "teams" THEN 1..(tbl - 1) ELSE DOMAIN teamAnalyses

PrintedMonths ==
    IF ~(Summarized /\ args.monthly /\ ~args.teams) THEN {}
    ELSE IF pc = "months" THEN 1..(tbl - 1) ELSE DOMAIN monthlyAnalyses

\* C16: the average and the median of an aggregate are stored and stay 0
\* while issues are processed; they are set from the aggregate's values
\* after the last issue, those of the overall bucket when the results are
\* summarized and those of a team or month bucket when its table is
\* printed, and from then on they are those of its values.
C16_CurrentOnceComputed ==
    /\ \A c \in DOMAIN analysis :
         IF Summarized THEN IsCurrent(analysis[c]) ELSE IsUnset(analysis[c])
    /\ \A i \in DOMAIN teamAnalyses : \A c \in DOMAIN teamAnalyses[i].Analysis :
         IF i \in PrintedTeams THEN IsCurrent(teamAnalyses[i].Analysis[c])
         ELSE IsUnset(teamAnalyses[i].Analysis[c])
    /\ \A i \in DOMAIN monthlyAnalyses :
         \A c \in DOMAIN monthlyAnalyses[i].Analysis :
           IF i \in PrintedMonths THEN IsCurrent(monthlyAnalyses[i].Analysis[c])
           ELSE IsUnset(monthlyAnalyses[i].Analysis[c])

\* between two team tables: the overall aggregate and the first team's are
\* computed (20 / 3 hours and 16 / 2), the second team's 4 hours are not yet
C16_Witness ==
    /\ pc = "teams" /\ tbl = 2 /\ Len(teamAnalyses) = 2
    /\ \E c \in DOMAIN analysis :
         /\ analysis[c].ManaValues = <<8, 4, 8>>
         /\ analysis[c].AverageMana = <<20, 3>>
    /\ \E c \in DOMAIN teamAnalyses[1].Analysis :
         /\ teamAnalyses[1].Analysis[c].ManaValues = <<8, 8>>
         /\ teamAnalyses[1].Analysis[c].AverageMana = <<8, 1>>
    /\ \E c \in DOMAIN teamAnalyses[2].Analysis :
         /\ teamAnalyses[2].Analysis[c].ManaValues = <<4>>
         /\ teamAnalyses[2].Analysis[c].AverageMana = <<0, 1>>

----------------------------------------------------------------------------
(* the order of the rows *)

\* the categories of rows or results rs, in their order
CategoryOrder(rs) == [i \in DOMAIN rs |-> rs[i].IssueType]

\* every order of the categories that ranging over bucket a and sorting
\* the results may produce
PossibleOrders(a) == {CategoryOrder(r) : r \in SortedResults(a)}

\* C17: the order of a table's rows is determined by the issues fetched:
\* whenever results are put in order for a table (the overall results, a
\* team's, a month's), the order produced is the only one that the same
\* issues can produce, equal totals included.
C17_OneRowOrder ==
    [][/\ pc = "summarize" =>
            PossibleOrders(analysis') = {CategoryOrder(results')}
       /\ pc = "teams" =>
            PossibleOrders(teamAnalyses'[tbl].Analysis)
              = {CategoryOrder(stdout'[Len(stdout')].rows)}
       /\ pc = "months" =>
            PossibleOrders(monthlyAnalyses'[tbl].Analysis)
              = {CategoryOrder(stdout'[Len(stdout')].rows)}
      ]_vars

----------------------------------------------------------------------------
(* the link override, checked under FnSpec *)

\* the issue has a link, inward or outward, to a "Product Vulnerability"
LinksToVulnerability(issue) ==
    \E i \in DOMAIN issue.IssueLinks :
        \E x \in {issue.IssueLinks[i].OutwardIssue,
                  issue.IssueLinks[i].InwardIssue} :
            ~x.isNil /\ ~x.fieldsNil /\ x.Type = "Product Vulnerability"

\* C18: with -security an issue that the label override did not reclassify
\* (-broken-windows off, or no marker label) and that links to a "Product
\* Vulnerability", inward or outward, is classified "Security Vuln." whatever
\* its normalized type; an override that is off never changes the category.
C18_LinkOverride ==
    (call.fn = "issueTypeOf" /\ call.at = 1) =>
        LET f          == call.arg.flags
            issue      == call.arg.issue
            normalized == normalize(prog, issue.Type)
            relabelled == f.brokenWindows /\ HasBrokenWindowLabel(issue)
        IN  /\ (f.security /\ ~relabelled /\ LinksToVulnerability(issue))
                 => call.ret = "Security Vuln."
            /\ (~f.brokenWindows /\ call.ret = "Broken Window")
                 => normalized = "Broken Window"
            /\ (~f.security /\ call.ret = "Security Vuln.")
                 => normalized = "Security Vuln."

----------------------------------------------------------------------------
(* the fetch loop against a fixed result set, checked under PageSpec *)

\* the result set of the collaborator, in the order it serves it
ResultSet == [k \in 1..server.total |-> ServedAt(k - 1)]

StrictlyIncreasing(s) == \A i, j \in DOMAIN s : i < j => s[i] < s[j]

\* the fetch loop has ended
Fetched == pc \in {"summarize", "teams", "months", "summary", "overall", "done"}

\* C19: against a collaborator that serves a fixed set of N issues in pages
\* (of at most 50, or fewer) with Total = N the fetch loop comes to its end; the offsets
\* it requests increase strictly; the issues processed are a prefix of the
\* result set at every moment (none skipped, none twice) and the whole set
\* once the loop has ended, which is before any table is printed; with
\* N = 0 there is one request and the table printed has no row.
C19_FetchLoop ==
    /\ <>Fetched
    /\ [](/\ StrictlyIncreasing(server.requests)
          /\ Len(fetched) <= server.total
          /\ fetched = SubSeq(ResultSet, 1, Len(fetched))
          /\ (Fetched \/ Tables # {}) => fetched = ResultSet
          /\ (pc = "done" /\ server.total = 0) =>
                /\ server.requests = <<0>>
                /\ OverallTable.kind = "table"
                /\ OverallTable.rows = <<>>)

\* five issues fetched in pages of two with three requests, the table
\* printed
C19_Witness ==
    /\ pc = "done"
    /\ server.kind = "fixed" /\ server.total = 5 /\ server.limit = 2
    /\ server.requests = <<0, 2, 4>>
    /\ Len(fetched) = 5
    /\ OverallTable.total.Count = 5

====
